---- MODULE Spec2Model ----
(***************************************************************************)
(* Probability Gomoku (src/src/main.rs): the game state, the click handler *)
(* of the main loop, the probability resolution and the win detector.      *)
(*                                                                         *)
(* One step of the model is one frame of the main loop in which the left   *)
(* mouse button is pressed at some window position <<x, y>>.  Frames       *)
(* without a press leave the game state alone and are stuttering steps.    *)
(***************************************************************************)
EXTENDS Integers, Sequences, FiniteSets, TLC

(***************************************************************************)
(* Layout constants.  All f32 expressions of the source have integral      *)
(* values except the click tolerance (22.5), which is kept doubled.        *)
(***************************************************************************)
BOARD_SIZE == 15

\* CELL_SIZE = BASE_CELL_SIZE * SCALE = 30.0 * 1.5
CELL_SIZE == 45

\* BOARD_OFFSET_X = (WINDOW_WIDTH - BOARD_ACTUAL_WIDTH) / 2 = (1200 - 630) / 2
BOARD_OFFSET_X == 285

\* BOARD_OFFSET_Y = (WINDOW_HEIGHT - BOARD_ACTUAL_HEIGHT) / 2 + 100
BOARD_OFFSET_Y == 385

\* BOARD_ACTUAL_WIDTH = CELL_SIZE * (BOARD_SIZE - 1)
BOARD_ACTUAL_WIDTH == CELL_SIZE * (BOARD_SIZE - 1)

\* twice the tolerance of mouse_to_grid: 2 * (15.0 * SCALE)
TOLERANCE2 == 45

\* button_y, button_width, button_height of the playing buttons (* SCALE)
PLAY_BUTTON_Y == 240
PLAY_BUTTON_WIDTH == 240
PLAY_BUTTON_HEIGHT == 75

\* END_TURN_BUTTON_WIDTH * SCALE, END_TURN_BUTTON_HEIGHT * SCALE
END_TURN_WIDTH == 240
END_TURN_HEIGHT == 75

\* 40.0 * SCALE, the gap between the two playing buttons
PLAY_BUTTON_GAP == 60

\* 40.0 * SCALE, the distance of the game-over buttons below the grid
OVER_BUTTON_MARGIN == 60

\* button_width, button_height of the game-over buttons
\* (180 * SCALE * GAME_OVER_BUTTON_SCALE, 60 * SCALE * GAME_OVER_BUTTON_SCALE)
OVER_BUTTON_WIDTH == 405
OVER_BUTTON_HEIGHT == 135

\* 60.0 * SCALE, the gap between the two game-over buttons
OVER_BUTTON_GAP == 90

\* check_winner: `for step in 1..5` and `count >= 5`
SCAN_END == 5
WIN_LENGTH == 5

\* switch_player_prob: `% 2`
PROB_TIERS == 2

\* prob_to_definite: gen_range(0..100) and the four thresholds
RNG_RANGE == 100
THRESHOLD_90 == 90
THRESHOLD_70 == 70
THRESHOLD_30 == 30
THRESHOLD_10 == 10

(***************************************************************************)
(* Bounds of the model: the clicks the environment makes.                  *)
(***************************************************************************)
\* The cells pressed are those of a row of WIN_LENGTH cells that ends at the
\* centre of the board: (7,3) .. (7,7).
ClickRow == BOARD_SIZE \div 2
ClickCols == WIN_LENGTH
ClickCol0 == BOARD_SIZE \div 2 - (ClickCols - 1)
\* how many of the leftmost still empty cells of that row a press may choose
\* from
ClickWindow == 1

(***************************************************************************)
(* Types                                                                   *)
(***************************************************************************)
ProbPiece == {"Black90", "Black70", "Black30", "Black10", "Empty"}
DefinitePiece == {"Black", "White", "Empty"}
Player == {"Black", "White"}

Index == 0 .. (BOARD_SIZE - 1)
Cells == Index \X Index

\* Option::None of observation_winner, and of the result of mouse_to_grid
None == "None"
NoCell == <<>>

VARIABLES
    game_state,       \* the GameState of main
    exited,           \* std::process::exit was called
    completed_turns   \* history: the end-turns of each player the handler
                      \* has taken since the game began

vars == <<game_state, exited, completed_turns>>

NoTurns == [p \in Player |-> 0]

(***************************************************************************)
(* GameState::default                                                      *)
(***************************************************************************)
EmptyWinningPieces == [black |-> <<>>, white |-> <<>>]

\* A row of `[[ProbPiece::Empty; BOARD_SIZE]; BOARD_SIZE]`.
EmptyRow == [c \in Index |-> "Empty"]

GameStateDefault ==
    [ board                   |-> [r \in Index |-> EmptyRow],
      show_observation        |-> FALSE,
      observation_board       |-> [r \in Index |-> EmptyRow],
      observation_winner      |-> None,
      observe_remaining       |-> 1,
      current_player          |-> "Black",
      black_prob_index        |-> 0,
      white_prob_index        |-> 0,
      winning_pieces          |-> EmptyWinningPieces,
      game_over               |-> FALSE,
      current_turn_move_count |-> 0,
      show_prob_hint          |-> TRUE ]

(***************************************************************************)
(* mouse_to_grid: the cell <<row, col>> under a window position, or None.  *)
(* `(g / CELL_SIZE).round() as usize` rounds half away from zero and the   *)
(* cast saturates a negative value to 0.                                   *)
(***************************************************************************)
RoundToIndex(g) ==
    IF g < 0 THEN 0 ELSE (2 * g + CELL_SIZE) \div (2 * CELL_SIZE)

\* mouse_to_grid taking a row or column past the last one for the last one
mouse_to_grid_Clamped(m) ==
    LET grid_x == m[1] - BOARD_OFFSET_X
        grid_y == m[2] - BOARD_OFFSET_Y
        limit2 == 2 * CELL_SIZE * BOARD_SIZE + TOLERANCE2
    IN  IF \/ 2 * grid_x < -TOLERANCE2
           \/ 2 * grid_y < -TOLERANCE2
           \/ 2 * grid_x > limit2
           \/ 2 * grid_y > limit2
        THEN NoCell
        ELSE LET col == RoundToIndex(grid_x)
                 row == RoundToIndex(grid_y)
             IN  << IF row < BOARD_SIZE THEN row ELSE BOARD_SIZE - 1,
                    IF col < BOARD_SIZE THEN col ELSE BOARD_SIZE - 1 >>

mouse_to_grid(m) ==
    LET grid_x == m[1] - BOARD_OFFSET_X
        grid_y == m[2] - BOARD_OFFSET_Y
        limit2 == 2 * CELL_SIZE * BOARD_SIZE + TOLERANCE2
    IN  IF \/ 2 * grid_x < -TOLERANCE2
           \/ 2 * grid_y < -TOLERANCE2
           \/ 2 * grid_x > limit2
           \/ 2 * grid_y > limit2
        THEN NoCell
        ELSE LET col == RoundToIndex(grid_x)
                 row == RoundToIndex(grid_y)
             IN  IF row < BOARD_SIZE /\ col < BOARD_SIZE
                 THEN <<row, col>>
                 ELSE NoCell

(***************************************************************************)
(* The button rectangles tested by main.                                   *)
(***************************************************************************)
InRect(m, x, y, w, h) ==
    /\ m[1] >= x /\ m[1] <= x + w
    /\ m[2] >= y /\ m[2] <= y + h

observe_x ==
    BOARD_OFFSET_X
      + (BOARD_ACTUAL_WIDTH - PLAY_BUTTON_WIDTH - END_TURN_WIDTH - PLAY_BUTTON_GAP) \div 2

end_turn_button_x == observe_x + PLAY_BUTTON_WIDTH + PLAY_BUTTON_GAP

over_button_y == BOARD_OFFSET_Y + CELL_SIZE * BOARD_SIZE + OVER_BUTTON_MARGIN

\* (630 - 2 * 405 - 90) / 2 = -135 exactly
restart_x ==
    BOARD_OFFSET_X - (2 * OVER_BUTTON_WIDTH + OVER_BUTTON_GAP - BOARD_ACTUAL_WIDTH) \div 2

exit_x == restart_x + OVER_BUTTON_WIDTH + OVER_BUTTON_GAP

OnObserveButton(m) ==
    InRect(m, observe_x, PLAY_BUTTON_Y, PLAY_BUTTON_WIDTH, PLAY_BUTTON_HEIGHT)

OnEndTurnButton(m) ==
    InRect(m, end_turn_button_x, PLAY_BUTTON_Y, END_TURN_WIDTH, END_TURN_HEIGHT)

OnRestartButton(m) ==
    InRect(m, restart_x, over_button_y, OVER_BUTTON_WIDTH, OVER_BUTTON_HEIGHT)

OnExitButton(m) ==
    InRect(m, exit_x, over_button_y, OVER_BUTTON_WIDTH, OVER_BUTTON_HEIGHT)

(***************************************************************************)
(* prob_to_definite: rng is the value drawn by gen_range(0..100).  The     *)
(* Empty arm draws nothing.                                                *)
(***************************************************************************)
\* prob_to_definite with `<=` for `<`
prob_to_definite_Inclusive(piece, rng) ==
    CASE piece = "Black90" -> IF rng <= THRESHOLD_90 THEN "Black" ELSE "White"
      [] piece = "Black70" -> IF rng <= THRESHOLD_70 THEN "Black" ELSE "White"
      [] piece = "Black30" -> IF rng <= THRESHOLD_30 THEN "Black" ELSE "White"
      [] piece = "Black10" -> IF rng <= THRESHOLD_10 THEN "Black" ELSE "White"
      [] piece = "Empty"   -> "Empty"

prob_to_definite(piece, rng) ==
    CASE piece = "Black90" -> IF rng < THRESHOLD_90 THEN "Black" ELSE "White"
      [] piece = "Black70" -> IF rng < THRESHOLD_70 THEN "Black" ELSE "White"
      [] piece = "Black30" -> IF rng < THRESHOLD_30 THEN "Black" ELSE "White"
      [] piece = "Black10" -> IF rng < THRESHOLD_10 THEN "Black" ELSE "White"
      [] piece = "Empty"   -> "Empty"

\* get_current_prob_piece reading black_prob_index for both players
get_current_prob_piece_OneIndex(state) ==
    IF state.current_player = "Black"
    THEN CASE state.black_prob_index = 0 -> "Black90"
           [] state.black_prob_index = 1 -> "Black70"
           [] OTHER                      -> "Black90"
    ELSE CASE state.black_prob_index = 0 -> "Black10"
           [] state.black_prob_index = 1 -> "Black30"
           [] OTHER                      -> "Black10"

get_current_prob_piece(state) ==
    IF state.current_player = "Black"
    THEN CASE state.black_prob_index = 0 -> "Black90"
           [] state.black_prob_index = 1 -> "Black70"
           [] OTHER                      -> "Black90"
    ELSE CASE state.white_prob_index = 0 -> "Black10"
           [] state.white_prob_index = 1 -> "Black30"
           [] OTHER                      -> "Black10"

\* switch_player_prob rotating the index of the other player
switch_player_prob_Other(state) ==
    IF state.current_player = "Black"
    THEN [state EXCEPT !.white_prob_index = (state.white_prob_index + 1) % PROB_TIERS]
    ELSE [state EXCEPT !.black_prob_index = (state.black_prob_index + 1) % PROB_TIERS]

\* switch_player_prob without the `% 2`
switch_player_prob_NoWrap(state) ==
    IF state.current_player = "Black"
    THEN [state EXCEPT !.black_prob_index = state.black_prob_index + 1]
    ELSE [state EXCEPT !.white_prob_index = state.white_prob_index + 1]

switch_player_prob(state) ==
    IF state.current_player = "Black"
    THEN [state EXCEPT !.black_prob_index = (state.black_prob_index + 1) % PROB_TIERS]
    ELSE [state EXCEPT !.white_prob_index = (state.white_prob_index + 1) % PROB_TIERS]

(***************************************************************************)
(* check_winner                                                            *)
(***************************************************************************)
directions == << <<0, 1>>, <<1, 0>>, <<1, 1>>, <<1, -1>> >>

\* The rows that hold a piece: the loops `continue` on every cell of the
\* other rows.
OccupiedRows(board) == { row \in Index : board[row] # EmptyRow }

\* The cells the loops do not `continue` on.
NonEmptyCells(board) ==
    { x \in OccupiedRows(board) \X Index : board[x[1]][x[2]] # "Empty" }

\* The inner loop `for step in 1..5` from the origin <<row, col>> along
\* <<dr, dc>>: acc is current_win_pieces, whose length is count.
\* ScanFrom with `>= BOARD_SIZE - 1` as the bound of the board
RECURSIVE ScanFrom_EdgeExcluded(_, _, _, _, _, _, _)
ScanFrom_EdgeExcluded(board, row, col, dr, dc, step, acc) ==
    IF step >= SCAN_END
    THEN acc
    ELSE LET r == row + dr * step
             c == col + dc * step
         IN  IF r < 0 \/ r >= BOARD_SIZE - 1 \/ c < 0 \/ c >= BOARD_SIZE - 1
             THEN acc
             ELSE IF board[r][c] = board[row][col]
                  THEN ScanFrom_EdgeExcluded(board, row, col, dr, dc, step + 1,
                                             Append(acc, <<r, c>>))
                  ELSE acc

\* ScanFrom with `1..=5` as the steps of the inner loop
RECURSIVE ScanFrom_OneMore(_, _, _, _, _, _, _)
ScanFrom_OneMore(board, row, col, dr, dc, step, acc) ==
    IF step >= SCAN_END + 1
    THEN acc
    ELSE LET r == row + dr * step
             c == col + dc * step
         IN  IF r < 0 \/ r >= BOARD_SIZE \/ c < 0 \/ c >= BOARD_SIZE
             THEN acc
             ELSE IF board[r][c] = board[row][col]
                  THEN ScanFrom_OneMore(board, row, col, dr, dc, step + 1,
                                        Append(acc, <<r, c>>))
                  ELSE acc

RECURSIVE ScanFrom(_, _, _, _, _, _, _)
ScanFrom(board, row, col, dr, dc, step, acc) ==
    IF step >= SCAN_END
    THEN acc
    ELSE LET r == row + dr * step
             c == col + dc * step
         IN  IF r < 0 \/ r >= BOARD_SIZE \/ c < 0 \/ c >= BOARD_SIZE
             THEN acc
             ELSE IF board[r][c] = board[row][col]
                  THEN ScanFrom(board, row, col, dr, dc, step + 1,
                                Append(acc, <<r, c>>))
                  ELSE acc

current_win_pieces(board, row, col, d) ==
    ScanFrom(board, row, col, directions[d][1], directions[d][2], 1,
             << <<row, col>> >>)

\* The scans <<row, col, d>> at which the loops reach `count >= 5`.
WinningScans(board) ==
    { h \in { <<cell[1], cell[2], d>> :
                 cell \in NonEmptyCells(board), d \in DOMAIN directions } :
        Len(current_win_pieces(board, h[1], h[2], h[3])) >= WIN_LENGTH }

\* The position of a scan in the iteration: rows, then columns, then
\* directions.
ScanOrder(h) == (h[1] * BOARD_SIZE + h[2]) * Len(directions) + (h[3] - 1)

\* The pieces recorded for a colour whose winning scans are hits: those of
\* the first one in the iteration (the has_win flag keeps the later ones
\* out); empty without one.
\* FirstWinPieces without the has_win flag: each winning scan overwrites the
\* pieces, the last one stays
FirstWinPieces_LastFound(board, hits) ==
    IF hits = {}
    THEN <<>>
    ELSE LET h == CHOOSE x \in hits :
                    \A y \in hits : ScanOrder(x) >= ScanOrder(y)
         IN  current_win_pieces(board, h[1], h[2], h[3])

FirstWinPieces(board, hits) ==
    IF hits = {}
    THEN <<>>
    ELSE LET h == CHOOSE x \in hits :
                    \A y \in hits : ScanOrder(x) <= ScanOrder(y)
         IN  current_win_pieces(board, h[1], h[2], h[3])

\* is_full looking at the cells with a piece only: true of the board
\* without one
is_full_OfPieces(board) ==
    \A cell \in NonEmptyCells(board) : board[cell[1]][cell[2]] # "Empty"

is_full(board) ==
    \A row \in Index : \A col \in Index : board[row][col] # "Empty"

\* check_winner with the test of the full board before those of the wins
check_winner_FullFirst(board) ==
    LET hits == WinningScans(board)
        black_hits == { h \in hits : board[h[1]][h[2]] = "Black" }
        white_hits == { h \in hits : board[h[1]][h[2]] = "White" }
        black_has_win == black_hits # {}
        white_has_win == white_hits # {}
        result ==
            IF is_full(board) THEN "Draw! Board Full!"
            ELSE IF black_has_win /\ white_has_win THEN "Draw! Both Players Win!"
            ELSE IF black_has_win THEN "Black Wins!"
            ELSE IF white_has_win THEN "White Wins!"
            ELSE None
    IN  [ result |-> result,
          winning_pieces |-> [ black |-> FirstWinPieces(board, black_hits),
                               white |-> FirstWinPieces(board, white_hits) ] ]

\* check_winner without the draw of the full board
check_winner_NoFullDraw(board) ==
    LET hits == WinningScans(board)
        black_hits == { h \in hits : board[h[1]][h[2]] = "Black" }
        white_hits == { h \in hits : board[h[1]][h[2]] = "White" }
        black_has_win == black_hits # {}
        white_has_win == white_hits # {}
        result ==
            IF black_has_win /\ white_has_win THEN "Draw! Both Players Win!"
            ELSE IF black_has_win THEN "Black Wins!"
            ELSE IF white_has_win THEN "White Wins!"
            ELSE None
    IN  [ result |-> result,
          winning_pieces |-> [ black |-> FirstWinPieces(board, black_hits),
                               white |-> FirstWinPieces(board, white_hits) ] ]

check_winner(board) ==
    LET hits == WinningScans(board)
        black_hits == { h \in hits : board[h[1]][h[2]] = "Black" }
        white_hits == { h \in hits : board[h[1]][h[2]] = "White" }
        black_has_win == black_hits # {}
        white_has_win == white_hits # {}
        result ==
            IF black_has_win /\ white_has_win THEN "Draw! Both Players Win!"
            ELSE IF black_has_win THEN "Black Wins!"
            ELSE IF white_has_win THEN "White Wins!"
            ELSE IF is_full(board) THEN "Draw! Board Full!"
            ELSE None
    IN  [ result |-> result,
          winning_pieces |-> [ black |-> FirstWinPieces(board, black_hits),
                               white |-> FirstWinPieces(board, white_hits) ] ]

(***************************************************************************)
(* The press handler of main, in the order of the source: the three tests  *)
(* of the playing block run one after the other on the state left by the   *)
(* one before, then the game-over block runs on the state left by the      *)
(* playing block.  m is the mouse position of the press.                   *)
(***************************************************************************)
\* the resolution loop writing observation_board[col][row]
Resolve_Transposed(board, draws) ==
    [ row \in Index |->
        [ col \in Index |->
            prob_to_definite(board[col][row],
                             IF <<col, row>> \in DOMAIN draws
                             THEN draws[<<col, row>>]
                             ELSE 0) ] ]

\* The resolution loop: draws[<<row, col>>] is the value drawn for that cell.
\* A row without a piece resolves to itself, prob_to_definite taking Empty to
\* Empty whatever is drawn.
Resolve(board, draws) ==
    [ row \in Index |->
        IF board[row] = EmptyRow
        THEN EmptyRow
        ELSE [ col \in Index |->
                 prob_to_definite(board[row][col],
                                  IF <<row, col>> \in DOMAIN draws
                                  THEN draws[<<row, col>>]
                                  ELSE 0) ] ]

\* ObserveClick with `observe_remaining >= 0`, true of every u8, as the test
\* of the allowance; the decrement wraps as that of a u8 does
ObserveClick_NoAllowanceTest(state, m, draws) ==
    IF OnObserveButton(m)
    THEN IF state.show_observation
         THEN [state EXCEPT !.show_observation = FALSE]
         ELSE LET observation_board == Resolve(state.board, draws)
                  won == check_winner(observation_board)
              IN  [state EXCEPT
                     !.observe_remaining = (@ - 1) % 256,
                     !.observation_board = observation_board,
                     !.observation_winner = won.result,
                     !.winning_pieces = won.winning_pieces,
                     !.show_observation = TRUE,
                     !.game_over = IF won.result # None THEN TRUE ELSE @]
    ELSE state

\* ObserveClick whose hide gives the allowance back
ObserveClick_HideRestores(state, m, draws) ==
    IF OnObserveButton(m)
    THEN IF state.show_observation
         THEN [state EXCEPT !.show_observation = FALSE, !.observe_remaining = 1]
         ELSE IF state.observe_remaining > 0
              THEN LET observation_board == Resolve(state.board, draws)
                       won == check_winner(observation_board)
                   IN  [state EXCEPT
                          !.observe_remaining = @ - 1,
                          !.observation_board = observation_board,
                          !.observation_winner = won.result,
                          !.winning_pieces = won.winning_pieces,
                          !.show_observation = TRUE,
                          !.game_over = IF won.result # None THEN TRUE ELSE @]
              ELSE state
    ELSE state

\* ObserveClick that never sets game_over
ObserveClick_NoGameOver(state, m, draws) ==
    IF OnObserveButton(m)
    THEN IF state.show_observation
         THEN [state EXCEPT !.show_observation = FALSE]
         ELSE IF state.observe_remaining > 0
              THEN LET observation_board == Resolve(state.board, draws)
                       won == check_winner(observation_board)
                   IN  [state EXCEPT
                          !.observe_remaining = @ - 1,
                          !.observation_board = observation_board,
                          !.observation_winner = won.result,
                          !.winning_pieces = won.winning_pieces,
                          !.show_observation = TRUE]
              ELSE state
    ELSE state

\* ObserveClick that keeps the resolution it has of a board with the same
\* cells occupied, instead of resolving again
ObserveClick_Memoized(state, m, draws) ==
    IF OnObserveButton(m)
    THEN IF state.show_observation
         THEN [state EXCEPT !.show_observation = FALSE]
         ELSE IF state.observe_remaining > 0
              THEN LET observation_board ==
                           IF NonEmptyCells(state.observation_board)
                                  = NonEmptyCells(state.board)
                           THEN state.observation_board
                           ELSE Resolve(state.board, draws)
                       won == check_winner(observation_board)
                   IN  [state EXCEPT
                          !.observe_remaining = @ - 1,
                          !.observation_board = observation_board,
                          !.observation_winner = won.result,
                          !.winning_pieces = won.winning_pieces,
                          !.show_observation = TRUE,
                          !.game_over = IF won.result # None THEN TRUE ELSE @]
              ELSE state
    ELSE state

\* ObserveClick that sets game_over after every resolution, without the test
\* `winner.is_some()`
ObserveClick_AlwaysOver(state, m, draws) ==
    IF OnObserveButton(m)
    THEN IF state.show_observation
         THEN [state EXCEPT !.show_observation = FALSE]
         ELSE IF state.observe_remaining > 0
              THEN LET observation_board == Resolve(state.board, draws)
                       won == check_winner(observation_board)
                   IN  [state EXCEPT
                          !.observe_remaining = @ - 1,
                          !.observation_board = observation_board,
                          !.observation_winner = won.result,
                          !.winning_pieces = won.winning_pieces,
                          !.show_observation = TRUE,
                          !.game_over = TRUE]
              ELSE state
    ELSE state

\* ObserveClick without `observe_remaining -= 1`
ObserveClick_NoDecrement(state, m, draws) ==
    IF OnObserveButton(m)
    THEN IF state.show_observation
         THEN [state EXCEPT !.show_observation = FALSE]
         ELSE IF state.observe_remaining > 0
              THEN LET observation_board == Resolve(state.board, draws)
                       won == check_winner(observation_board)
                   IN  [state EXCEPT
                          !.observation_board = observation_board,
                          !.observation_winner = won.result,
                          !.winning_pieces = won.winning_pieces,
                          !.show_observation = TRUE,
                          !.game_over = IF won.result # None THEN TRUE ELSE @]
              ELSE state
    ELSE state

ObserveClick(state, m, draws) ==
    IF OnObserveButton(m)
    THEN IF state.show_observation
         THEN [state EXCEPT !.show_observation = FALSE]
         ELSE IF state.observe_remaining > 0
              THEN LET observation_board == Resolve(state.board, draws)
                       won == check_winner(observation_board)
                   IN  [state EXCEPT
                          !.observe_remaining = @ - 1,
                          !.observation_board = observation_board,
                          !.observation_winner = won.result,
                          !.winning_pieces = won.winning_pieces,
                          !.show_observation = TRUE,
                          !.game_over = IF won.result # None THEN TRUE ELSE @]
              ELSE state
    ELSE state

\* EndTurnClick without the test of current_turn_move_count
EndTurnClick_NoCountTest(state, m) ==
    IF OnEndTurnButton(m)
    THEN [switch_player_prob(state) EXCEPT
            !.current_player = IF @ = "Black" THEN "White" ELSE "Black",
            !.observe_remaining = 1,
            !.show_observation = FALSE,
            !.observation_winner = None,
            !.winning_pieces = EmptyWinningPieces,
            !.current_turn_move_count = 0,
            !.show_prob_hint = TRUE]
    ELSE state

EndTurnClick(state, m) ==
    IF state.current_turn_move_count > 0 /\ OnEndTurnButton(m)
    THEN [switch_player_prob(state) EXCEPT
            !.current_player = IF @ = "Black" THEN "White" ELSE "Black",
            !.observe_remaining = 1,
            !.show_observation = FALSE,
            !.observation_winner = None,
            !.winning_pieces = EmptyWinningPieces,
            !.current_turn_move_count = 0,
            !.show_prob_hint = TRUE]
    ELSE state

\* PlaceClick without the test that the cell is Empty
PlaceClick_Overwrite(state, m) ==
    IF ~state.show_observation /\ state.current_turn_move_count = 0
    THEN LET cell == mouse_to_grid(m)
         IN  IF cell # NoCell
             THEN [state EXCEPT
                     !.board[cell[1]][cell[2]] = get_current_prob_piece(state),
                     !.current_turn_move_count = 1,
                     !.show_prob_hint = FALSE]
             ELSE state
    ELSE state

\* PlaceClick without the test of show_observation
PlaceClick_WhilePreviewShown(state, m) ==
    IF state.current_turn_move_count = 0
    THEN LET cell == mouse_to_grid(m)
         IN  IF cell # NoCell
             THEN IF state.board[cell[1]][cell[2]] = "Empty"
                  THEN [state EXCEPT
                          !.board[cell[1]][cell[2]] = get_current_prob_piece(state),
                          !.current_turn_move_count = 1,
                          !.show_prob_hint = FALSE]
                  ELSE state
             ELSE state
    ELSE state

\* PlaceClick without the test of current_turn_move_count
PlaceClick_NoCountTest(state, m) ==
    IF ~state.show_observation
    THEN LET cell == mouse_to_grid(m)
         IN  IF cell # NoCell
             THEN IF state.board[cell[1]][cell[2]] = "Empty"
                  THEN [state EXCEPT
                          !.board[cell[1]][cell[2]] = get_current_prob_piece(state),
                          !.current_turn_move_count = 1,
                          !.show_prob_hint = FALSE]
                  ELSE state
             ELSE state
    ELSE state

PlaceClick(state, m) ==
    IF ~state.show_observation /\ state.current_turn_move_count = 0
    THEN LET cell == mouse_to_grid(m)
         IN  IF cell # NoCell
             THEN IF state.board[cell[1]][cell[2]] = "Empty"
                  THEN [state EXCEPT
                          !.board[cell[1]][cell[2]] = get_current_prob_piece(state),
                          !.current_turn_move_count = 1,
                          !.show_prob_hint = FALSE]
                  ELSE state
             ELSE state
    ELSE state

\* the playing block without the test of game_over
PlayingBlock_Unguarded(state, m, draws) ==
    PlaceClick(EndTurnClick(ObserveClick(state, m, draws), m), m)

\* `if !game_state.game_over && is_mouse_button_pressed(..)`
PlayingBlock(state, m, draws) ==
    IF ~state.game_over
    THEN PlaceClick(EndTurnClick(ObserveClick(state, m, draws), m), m)
    ELSE state

\* the restart test outside the test of game_over
GameOverBlock_Unguarded(state, m) ==
    IF OnRestartButton(m)
    THEN GameStateDefault
    ELSE state

\* a restart that resets the session but keeps the board
GameOverBlock_KeepBoard(state, m) ==
    IF state.game_over /\ OnRestartButton(m)
    THEN [GameStateDefault EXCEPT !.board = state.board]
    ELSE state

\* `if game_state.game_over && is_mouse_button_pressed(..)`: the restart test
GameOverBlock(state, m) ==
    IF state.game_over /\ OnRestartButton(m)
    THEN GameStateDefault
    ELSE state

\* the exit test of the same block
ExitPressed(state, m) == state.game_over /\ OnExitButton(m)

\* The game state a frame with a press at m leaves.
Frame(state, m, draws) == GameOverBlock(PlayingBlock(state, m, draws), m)

(***************************************************************************)
(* The environment: where the button is pressed and what the generator     *)
(* draws.                                                                  *)
(***************************************************************************)
\* the centre of a cell, where draw_prob_pieces draws its piece
CellPoint(row, col) ==
    <<BOARD_OFFSET_X + col * CELL_SIZE, BOARD_OFFSET_Y + row * CELL_SIZE>>

RectCentre(x, y, w, h) == <<x + w \div 2, y + h \div 2>>

ObservePoint ==
    RectCentre(observe_x, PLAY_BUTTON_Y, PLAY_BUTTON_WIDTH, PLAY_BUTTON_HEIGHT)
EndTurnPoint ==
    RectCentre(end_turn_button_x, PLAY_BUTTON_Y, END_TURN_WIDTH, END_TURN_HEIGHT)
RestartPoint ==
    RectCentre(restart_x, over_button_y, OVER_BUTTON_WIDTH, OVER_BUTTON_HEIGHT)
ExitPoint ==
    RectCentre(exit_x, over_button_y, OVER_BUTTON_WIDTH, OVER_BUTTON_HEIGHT)

\* a press within the tolerance of the grid that rounds to column BOARD_SIZE
OffGridPoint == CellPoint(ClickRow, BOARD_SIZE)
\* a press on nothing
NowherePoint == <<10, 10>>

ClickCells == { <<ClickRow, ClickCol0 + i>> : i \in 0 .. (ClickCols - 1) }

\* The cells pressed in a state: the occupied ones of ClickCells and the
\* ClickWindow leftmost empty ones.
OfferedCells(board) ==
    LET free == { x \in ClickCells : board[x[1]][x[2]] = "Empty" }
    IN  { x \in ClickCells :
            \/ x \notin free
            \/ Cardinality({ y \in free : y[2] < x[2] }) < ClickWindow }

\* the two extreme draws that still decide alike for all four markers:
\* 9 < 10 gives Black for every marker, 90 >= 90 gives White for every one
DrawValues == {THRESHOLD_10 - 1, THRESHOLD_90}

NoDraws == <<>>

\* the draws of a press: one per non-empty cell when the press resolves the
\* board, none otherwise
Draws(state, m) ==
    IF /\ ~state.game_over /\ OnObserveButton(m)
       /\ ~state.show_observation /\ state.observe_remaining > 0
    THEN [NonEmptyCells(state.board) -> DrawValues]
    ELSE { NoDraws }

\* the press takes the branch `if current_turn_move_count > 0 && ...` of the
\* end-turn button, inside `if !game_state.game_over`
EndTurnTaken(state, m) ==
    /\ ~state.game_over
    /\ state.current_turn_move_count > 0
    /\ OnEndTurnButton(m)

\* The end-turns taken in the game after a frame with a press at m: one more
\* of the player whose turn the press ends, none in the game that a restart
\* begins.
TurnsAfter(state, m, draws, turns) ==
    IF OnRestartButton(m) /\ PlayingBlock(state, m, draws).game_over
    THEN NoTurns
    ELSE IF EndTurnTaken(state, m)
         THEN [turns EXCEPT ![state.current_player] = @ + 1]
         ELSE turns

Init ==
    /\ game_state = GameStateDefault
    /\ exited = FALSE
    /\ completed_turns = NoTurns

\* a frame of the loop with a press at m in which the generator draws `draws`
PressDrawn(m, draws) ==
    /\ ~exited
    /\ game_state' = Frame(game_state, m, draws)
    /\ exited' = ExitPressed(PlayingBlock(game_state, m, draws), m)
    /\ completed_turns' = TurnsAfter(game_state, m, draws, completed_turns)

Press(m) == \E draws \in Draws(game_state, m) : PressDrawn(m, draws)

PressObserve == Press(ObservePoint)
PressEndTurn == Press(EndTurnPoint)
PressCell == \E cell \in OfferedCells(game_state.board) : Press(CellPoint(cell[1], cell[2]))
PressOffGrid == Press(OffGridPoint)
PressNowhere == Press(NowherePoint)
PressRestart == Press(RestartPoint)
PressExit == Press(ExitPoint)

Next ==
    \/ PressObserve
    \/ PressEndTurn
    \/ PressCell
    \/ PressOffGrid
    \/ PressNowhere
    \/ PressRestart
    \/ PressExit

Spec == Init /\ [][Next]_vars

(***************************************************************************)
(* Requests.  A placement request for a cell is a press on the centre of   *)
(* that cell; the cells just outside the grid stand for the out-of-range   *)
(* requests.  The other requests are presses on the centre of a button.    *)
(***************************************************************************)
InRange(cell) == cell[1] \in Index /\ cell[2] \in Index

OutOfRangeCells == { <<ClickRow, BOARD_SIZE>>, <<ClickRow, -1>>, <<BOARD_SIZE, ClickCol0>> }

RequestCells == ClickCells \cup OutOfRangeCells

Place(state, cell) == Frame(state, CellPoint(cell[1], cell[2]), NoDraws)
Hide(state) == Frame(state, ObservePoint, NoDraws)
Preview(state, draws) == Frame(state, ObservePoint, draws)
EndTurn(state) == Frame(state, EndTurnPoint, NoDraws)
Restart(state) == Frame(state, RestartPoint, NoDraws)

\* the step of an accepted restart
RestartStep == game_state.game_over /\ game_state' = GameStateDefault

(***************************************************************************)
(* Placement                                                               *)
(***************************************************************************)
\* the conditions under which the claims let a placement request take effect
PlaceAccepted(state, cell) ==
    /\ state.current_turn_move_count = 0
    /\ ~state.show_observation
    /\ ~state.game_over
    /\ InRange(cell)
    /\ state.board[cell[1]][cell[2]] = "Empty"

\* C1: a placement request takes effect only when the placement count of the
\* turn is 0, the preview is hidden, the game is not over and the target cell
\* is in range and Empty; in every other case the request leaves the board
\* and the whole session state exactly as they were, and the process running.
C1_PlaceRejectedIsNoOp ==
    \A cell \in RequestCells :
        ~PlaceAccepted(game_state, cell) =>
            /\ Place(game_state, cell) = game_state
            /\ ~ExitPressed(
                   PlayingBlock(game_state, CellPoint(cell[1], cell[2]), NoDraws),
                   CellPoint(cell[1], cell[2]))

\* C1 witness: a preview is shown at the start of a turn on a board that has
\* an occupied and an Empty cell, so that requests are rejected for the
\* shown preview, for the occupied cell and for the cells out of range.
C1_Witness ==
    /\ game_state.show_observation
    /\ ~game_state.game_over
    /\ game_state.current_turn_move_count = 0
    /\ \E cell \in ClickCells : game_state.board[cell[1]][cell[2]] # "Empty"
    /\ \E cell \in ClickCells :
          /\ game_state.board[cell[1]][cell[2]] = "Empty"
          /\ Place(game_state, cell) = game_state

\* the marker of the current player's rotation index, as the claim lists it
MarkerOf(player, index) ==
    CASE player = "Black" /\ index = 0 -> "Black90"
      [] player = "Black" /\ index = 1 -> "Black70"
      [] player = "White" /\ index = 0 -> "Black10"
      [] player = "White" /\ index = 1 -> "Black30"

CurrentIndex(state) ==
    IF state.current_player = "Black"
    THEN state.black_prob_index
    ELSE state.white_prob_index

\* C2: an accepted placement sets exactly the target cell to the marker that
\* the current player's rotation index selects, sets the placement count to 1
\* and clears the hint flag; every other cell and every other field of the
\* session is unchanged.
C2_PlaceEffect ==
    \A cell \in ClickCells :
        PlaceAccepted(game_state, cell) =>
            Place(game_state, cell) =
                [game_state EXCEPT
                   !.board[cell[1]][cell[2]] =
                       MarkerOf(game_state.current_player, CurrentIndex(game_state)),
                   !.current_turn_move_count = 1,
                   !.show_prob_hint = FALSE]

\* C2 witness: White has placed its second marker (rotation index 1), and a
\* further placement is still possible after it.
C2_Witness ==
    /\ \E cell \in ClickCells : game_state.board[cell[1]][cell[2]] = "Black30"
    /\ \E cell \in ClickCells : PlaceAccepted(game_state, cell)

(***************************************************************************)
(* The board within a game                                                 *)
(***************************************************************************)
\* C3: in a step that is no restart, a cell that holds a marker keeps that
\* marker, and a step of a preview, of a hide or of an end-turn (one that
\* changes show_observation, observe_remaining or current_player) changes no
\* cell of the board.
C3_MarkersArePermanent ==
    [][ ~RestartStep =>
          /\ \A cell \in NonEmptyCells(game_state.board) :
                game_state'.board[cell[1]][cell[2]] =
                    game_state.board[cell[1]][cell[2]]
          /\ ( \/ game_state'.show_observation # game_state.show_observation
               \/ game_state'.observe_remaining # game_state.observe_remaining
               \/ game_state'.current_player # game_state.current_player )
             => game_state'.board = game_state.board ]_vars

\* C3 witness: the first marker of the game is still in its cell in Black's
\* second turn, after end-turns of both players and a preview in this turn.
C3_Witness ==
    /\ game_state.current_player = "Black"
    /\ game_state.black_prob_index = 1
    /\ game_state.show_observation
    /\ \E cell \in ClickCells : game_state.board[cell[1]][cell[2]] = "Black90"
    /\ \E cell \in ClickCells : game_state.board[cell[1]][cell[2]] = "Black10"

(***************************************************************************)
(* Preview                                                                 *)
(***************************************************************************)
\* C4: the allowance starts at 1 and is 0 or 1; only a resolving preview
\* (preview hidden before, shown after) decrements it, by one; it grows only
\* to 1 and only in an end-turn or a restart, so a hide does not restore it;
\* and a preview request with the allowance at 0 and the preview hidden is
\* rejected and leaves the state unchanged.
C4_OnePreviewPerTurn ==
    /\ game_state.observe_remaining = 1
    /\ [][ /\ game_state.observe_remaining \in {0, 1}
           /\ game_state'.observe_remaining < game_state.observe_remaining =>
                 /\ game_state'.observe_remaining = game_state.observe_remaining - 1
                 /\ ~game_state.show_observation
                 /\ game_state'.show_observation
                 /\ game_state'.current_player = game_state.current_player
           /\ game_state'.observe_remaining > game_state.observe_remaining =>
                 /\ game_state'.observe_remaining = 1
                 /\ \/ game_state'.current_player # game_state.current_player
                    \/ RestartStep
           /\ (game_state.observe_remaining = 0 /\ ~game_state.show_observation) =>
                 \A draws \in [NonEmptyCells(game_state.board) -> DrawValues] :
                     Preview(game_state, draws) = game_state ]_vars

\* C4 witness: the one preview of the turn was used and hidden again, and
\* the game goes on: the state of a second attempt.
C4_Witness ==
    /\ game_state.observe_remaining = 0
    /\ ~game_state.show_observation
    /\ ~game_state.game_over
    /\ NonEmptyCells(game_state.board) # {}

\* the conditions under which a preview request resolves the board
PreviewResolves(state) ==
    /\ ~state.show_observation
    /\ state.observe_remaining > 0
    /\ ~state.game_over

\* C5: a preview request with the preview hidden, allowance > 0 and the game
\* not over decrements the allowance by one, records the resolution of the
\* current board under the draws of the request with its win outcome and
\* winning pieces, shows the preview, and sets game_over exactly when the
\* win outcome is not None; the board, the current player, the rotation
\* indices, the placement count and the hint flag are unchanged.
C5_PreviewEffect ==
    PreviewResolves(game_state) =>
        \A draws \in [NonEmptyCells(game_state.board) -> DrawValues] :
            LET resolved == Resolve(game_state.board, draws)
                won == check_winner(resolved)
            IN  Preview(game_state, draws) =
                    [game_state EXCEPT
                       !.observe_remaining = game_state.observe_remaining - 1,
                       !.observation_board = resolved,
                       !.observation_winner = won.result,
                       !.winning_pieces = won.winning_pieces,
                       !.show_observation = TRUE,
                       !.game_over = (won.result # None)]

\* C5 witness: a preview has resolved a board to a win and ended the game.
C5_Witness ==
    /\ game_state.game_over
    /\ game_state.show_observation
    /\ game_state.observe_remaining = 0
    /\ game_state.observation_winner = "Black Wins!"
    /\ Len(game_state.winning_pieces.black) = WIN_LENGTH

\* C6 as stated: in every state in which the preview is shown, also when the
\* game is over, a hide request sets show_observation to FALSE and changes
\* nothing else.
C6_HideAlwaysAccepted ==
    game_state.show_observation =>
        Hide(game_state) = [game_state EXCEPT !.show_observation = FALSE]

\* C6 amended: in every state in which the preview is shown and the game is
\* not over, a hide request sets show_observation to FALSE and changes
\* nothing else (no resolution, no change of the allowance); once the game is
\* over a hide request is ignored and the preview stays shown.
C6_HideWhilePlaying ==
    game_state.show_observation =>
        Hide(game_state) =
            IF game_state.game_over
            THEN game_state
            ELSE [game_state EXCEPT !.show_observation = FALSE]

\* C6 witness: a preview is shown on a board with markers after a resolution
\* without a win, and hiding it changes the state.
C6_Witness ==
    /\ game_state.show_observation
    /\ ~game_state.game_over
    /\ game_state.observe_remaining = 0
    /\ NonEmptyCells(game_state.observation_board) # {}
    /\ Hide(game_state) # game_state

(***************************************************************************)
(* Game over and restart                                                   *)
(***************************************************************************)
\* C7: once game_over is set, a step that is no restart leaves the board, the
\* current player, the rotation indices, the placement count, the allowance,
\* the resolved board, the win outcome, the winning pieces and game_over
\* itself unchanged.
C7_GameOverIsTerminal ==
    [][ (game_state.game_over /\ ~RestartStep) =>
          /\ game_state'.game_over
          /\ game_state'.board = game_state.board
          /\ game_state'.current_player = game_state.current_player
          /\ game_state'.black_prob_index = game_state.black_prob_index
          /\ game_state'.white_prob_index = game_state.white_prob_index
          /\ game_state'.current_turn_move_count = game_state.current_turn_move_count
          /\ game_state'.observe_remaining = game_state.observe_remaining
          /\ game_state'.observation_board = game_state.observation_board
          /\ game_state'.observation_winner = game_state.observation_winner
          /\ game_state'.winning_pieces = game_state.winning_pieces ]_vars

\* C7 witness: a press was handled after the end of a game whose turn had a
\* placement (the exit button), and the game state is still that of the end.
C7_Witness ==
    /\ exited
    /\ game_state.game_over
    /\ game_state.current_turn_move_count = 1
    /\ game_state.observation_winner # None

\* C8 as stated: in every reachable state, game over or not, a restart
\* request yields the start-of-game state.
C8_RestartAlwaysLegal == Restart(game_state) = GameStateDefault

\* C8 amended: a restart request is accepted exactly in the states in which
\* game_over is set, where it yields the start-of-game state; while the game
\* is not over it is ignored and leaves the state unchanged.
C8_RestartWhenGameOver ==
    Restart(game_state) =
        IF game_state.game_over THEN GameStateDefault ELSE game_state

\* C8 witness: a game has ended with a win of Black in a turn with a
\* placement, and a restart request takes it to the start-of-game state.
C8_Witness ==
    /\ game_state.game_over
    /\ game_state.observation_winner = "Black Wins!"
    /\ game_state.current_turn_move_count = 1
    /\ Restart(game_state) = GameStateDefault
    /\ Restart(game_state) # game_state

\* C9: an accepted restart yields exactly the initial state: every board cell
\* and every resolved cell Empty, Black to move, both rotation indices 0,
\* allowance 1, preview hidden, placement count 0, hint flag set, no win
\* outcome, both winning-piece lists empty, game not over.
C9_RestartYieldsInitialState ==
    game_state.game_over =>
        LET after == Restart(game_state)
        IN  /\ DOMAIN after = DOMAIN game_state
            /\ \A row \in 0 .. 14 : \A col \in 0 .. 14 :
                  /\ after.board[row][col] = "Empty"
                  /\ after.observation_board[row][col] = "Empty"
            /\ after.current_player = "Black"
            /\ after.black_prob_index = 0
            /\ after.white_prob_index = 0
            /\ after.observe_remaining = 1
            /\ after.show_observation = FALSE
            /\ after.current_turn_move_count = 0
            /\ after.show_prob_hint = TRUE
            /\ after.observation_winner = None
            /\ after.winning_pieces.black = <<>>
            /\ after.winning_pieces.white = <<>>
            /\ after.game_over = FALSE

\* C9 witness: a game has ended in White's turn with Black's rotation index
\* at 1, markers on both boards and a recorded winning line.
C9_Witness ==
    /\ game_state.game_over
    /\ game_state.current_player = "White"
    /\ game_state.black_prob_index = 1
    /\ game_state.show_observation
    /\ game_state.observe_remaining = 0
    /\ Len(game_state.winning_pieces.white) = WIN_LENGTH
    /\ Restart(game_state) # game_state

(***************************************************************************)
(* End of turn                                                             *)
(***************************************************************************)
Other(player) == IF player = "Black" THEN "White" ELSE "Black"

\* C10: an end-turn request with a placement made in the turn and the game
\* not over flips the rotation index of the departing player, keeps that of
\* the other player, switches the current player, and sets allowance = 1,
\* preview hidden, win outcome None, winning pieces empty, placement count 0
\* and the hint flag; the board and the resolved board are unchanged.
C10_EndTurnEffect ==
    (game_state.current_turn_move_count = 1 /\ ~game_state.game_over) =>
        EndTurn(game_state) =
            [game_state EXCEPT
               !.black_prob_index =
                   IF game_state.current_player = "Black" THEN (@ + 1) % 2 ELSE @,
               !.white_prob_index =
                   IF game_state.current_player = "White" THEN (@ + 1) % 2 ELSE @,
               !.current_player = Other(game_state.current_player),
               !.observe_remaining = 1,
               !.show_observation = FALSE,
               !.observation_winner = None,
               !.winning_pieces = [black |-> <<>>, white |-> <<>>],
               !.current_turn_move_count = 0,
               !.show_prob_hint = TRUE]

\* C10 witness: both players have ended a turn (both indices are 1), Black
\* has placed again, and the preview of this turn is shown.
C10_Witness ==
    /\ game_state.current_player = "Black"
    /\ game_state.black_prob_index = 1
    /\ game_state.white_prob_index = 1
    /\ game_state.current_turn_move_count = 1
    /\ game_state.show_observation
    /\ ~game_state.game_over

\* C11: an end-turn request when the placement count of the turn is 0, or
\* when the game is over, switches no player, rotates no index and leaves
\* the whole state unchanged, the process running and the count of
\* completed turns as it was.
C11_EndTurnRejectedIsNoOp ==
    (game_state.current_turn_move_count = 0 \/ game_state.game_over) =>
        /\ EndTurn(game_state) = game_state
        /\ EndTurn(game_state).current_player = game_state.current_player
        /\ EndTurn(game_state).black_prob_index = game_state.black_prob_index
        /\ EndTurn(game_state).white_prob_index = game_state.white_prob_index
        /\ ~ExitPressed(PlayingBlock(game_state, EndTurnPoint, NoDraws), EndTurnPoint)
        /\ TurnsAfter(game_state, EndTurnPoint, NoDraws, completed_turns)
               = completed_turns

\* C11 witness: White is to move at the start of its turn, nothing placed
\* yet in it, with Black's index rotated: the request has a player and an
\* index it could wrongly change.
C11_Witness ==
    /\ game_state.current_player = "White"
    /\ game_state.black_prob_index = 1
    /\ game_state.current_turn_move_count = 0
    /\ ~game_state.game_over
    /\ EndTurn(game_state) = game_state

(***************************************************************************)
(* Alternation                                                             *)
(***************************************************************************)
TurnsTaken == completed_turns["Black"] + completed_turns["White"]

\* the marker of a player's n-th turn (n from 0): the 90% tier of the player
\* first, then its 70% tier, in alternation
MarkerOfTurn(player, n) ==
    IF player = "Black"
    THEN IF n % 2 = 0 THEN "Black90" ELSE "Black70"
    ELSE IF n % 2 = 0 THEN "Black10" ELSE "Black30"

\* C12: after k end-turns of a game the current player is Black when k is
\* even and White when k is odd, each player's rotation index is the number
\* of turns that player has completed mod 2 (after one turn: White to move,
\* Black's index 1, White's index 0), Black has completed as many turns as
\* White or one more, and the marker a player places in a turn is that of
\* its 90% tier in its turns 0, 2, .. and of its 70% tier in turns 1, 3, ..
C12_PlayersAlternate ==
    /\ game_state.current_player =
           (IF TurnsTaken % 2 = 0 THEN "Black" ELSE "White")
    /\ game_state.black_prob_index = completed_turns["Black"] % 2
    /\ game_state.white_prob_index = completed_turns["White"] % 2
    /\ completed_turns["Black"] - completed_turns["White"]
           = (IF game_state.current_player = "Black" THEN 0 ELSE 1)
    /\ TurnsTaken = 1 =>
           /\ game_state.current_player = "White"
           /\ game_state.black_prob_index = 1
           /\ game_state.white_prob_index = 0
    /\ \A cell \in ClickCells :
           PlaceAccepted(game_state, cell) =>
               Place(game_state, cell).board[cell[1]][cell[2]] =
                   MarkerOfTurn(game_state.current_player,
                                completed_turns[game_state.current_player])

\* C12 witness: three turns are completed, two of Black and one of White, and
\* White can place the marker of its second turn.
C12_Witness ==
    /\ completed_turns["Black"] = 2
    /\ completed_turns["White"] = 1
    /\ \E cell \in ClickCells : PlaceAccepted(game_state, cell)

(***************************************************************************)
(* Games for check_winner.  The specification SpecWinner starts from the   *)
(* positions of games played outside the row of ClickCells: a line of      *)
(* markers from or up to a cell of the edge or of the centre, in each of   *)
(* the four directions; two lines; and the full board.  Its one action is  *)
(* the press on the observe button, which resolves the position and hands  *)
(* the resolved board to check_winner.                                     *)
(***************************************************************************)
\* the longest line of markers of a position
MaxRun == 6

\* the rows and columns of the ends of the lines: the edges and the centre
EdgeIndex == {0, BOARD_SIZE \div 2, BOARD_SIZE - 1}

Range(cells) == { cells[i] : i \in DOMAIN cells }

\* the cells start, start + d, .. : len of them
Line(start, d, len) ==
    [ i \in 1 .. len |-> <<start[1] + (i - 1) * d[1], start[2] + (i - 1) * d[2]>> ]

\* the line of len cells along d that ends at the cell `last`
LineUpTo(last, d, len) ==
    Line(<<last[1] - (len - 1) * d[1], last[2] - (len - 1) * d[2]>>, d, len)

TestLines ==
    { l \in UNION { { Line(a, directions[d], len), LineUpTo(a, directions[d], len) } :
                      a \in EdgeIndex \X EdgeIndex,
                      d \in DOMAIN directions,
                      len \in (WIN_LENGTH - 1) .. MaxRun } :
        \A i \in DOMAIN l : InRange(l[i]) }

\* the line of the centre row that ClickCells are, and lines apart from it
CentreLine == LineUpTo(<<ClickRow, BOARD_SIZE \div 2>>, directions[1], WIN_LENGTH)
ColumnLine == Line(<<0, BOARD_SIZE - WIN_LENGTH>>, directions[2], WIN_LENGTH)
UpperLine == Line(<<2, 0>>, directions[1], WIN_LENGTH)

\* two lines of WIN_LENGTH markers from one origin, the centre, in two of the
\* directions
Crosses ==
    { Line(<<ClickRow, ClickRow>>, directions[p[1]], WIN_LENGTH)
        \o Tail(Line(<<ClickRow, ClickRow>>, directions[p[2]], WIN_LENGTH)) :
        p \in { q \in (DOMAIN directions) \X (DOMAIN directions) : q[1] < q[2] } }

TwoLines ==
    { CentreLine \o ColumnLine, CentreLine \o UpperLine } \cup Crosses

\* every cell of the board, row by row
AllCells == [ i \in 1 .. BOARD_SIZE * BOARD_SIZE |->
                <<(i - 1) \div BOARD_SIZE, (i - 1) % BOARD_SIZE>> ]

\* the cells of the games, in the order in which they are played
TestGames == TestLines \cup TwoLines \cup { AllCells }

\* The game in which the players place on `cells` in turn, each ending its
\* turn after its placement: the handler applied to the presses.
\* (the placements first .. last of them, by halves; no press of them ends
\* the game)
RECURSIVE PlayFrom(_, _, _, _)
PlayFrom(state, cells, first, last) ==
    IF first > last
    THEN state
    ELSE IF first = last
         THEN EndTurn(Place(state, cells[first]))
         ELSE LET mid == (first + last) \div 2
                  played == PlayFrom(state, cells, first, mid)
              IN  IF played.game_over
                  THEN played
                  ELSE PlayFrom(played, cells, mid + 1, last)

Play(cells) == PlayFrom(GameStateDefault, cells, 1, Len(cells))

\* the end-turns of that game: Black ends the turns 1, 3, ..
TurnsOfPlay(cells) ==
    [ p \in Player |->
        IF p = "Black" THEN (Len(cells) + 1) \div 2 ELSE Len(cells) \div 2 ]

\* the draws that resolve every marker to Black, and every marker to White
BlackDraw == THRESHOLD_10 - 1
WhiteDraw == THRESHOLD_90

\* a colouring of the full board without a line of WIN_LENGTH cells of a
\* colour in any direction
ScatterDraw(cell) ==
    IF (cell[1] + 2 * cell[2]) % 4 < 2 THEN BlackDraw ELSE WhiteDraw

\* that colouring with the cells of `black` drawn Black and those of `white`
\* drawn White
ScatterWith(black, white) ==
    [ cell \in Cells |->
        IF cell \in Range(black) THEN BlackDraw
        ELSE IF cell \in Range(white) THEN WhiteDraw
        ELSE ScatterDraw(cell) ]

FullBoardDraws ==
    { ScatterWith(b, w) : b \in { <<>>, CentreLine }, w \in { <<>>, ColumnLine } }
      \cup { [cell \in Cells |-> BlackDraw] }

\* the draws of the press on the observe button in a position: every choice
\* of a colour per marker, but for the full board those of FullBoardDraws
TestDraws(state) ==
    IF PreviewResolves(state) /\ NonEmptyCells(state.board) = Cells
    THEN FullBoardDraws
    ELSE Draws(state, ObservePoint)

InitWinner ==
    /\ exited = FALSE
    /\ \E cells \in TestGames :
          /\ game_state = Play(cells)
          /\ completed_turns = TurnsOfPlay(cells)

ObserveDrawn ==
    \E draws \in TestDraws(game_state) : PressDrawn(ObservePoint, draws)

NextWinner == ObserveDrawn

SpecWinner == InitWinner /\ [][NextWinner]_vars

(***************************************************************************)
(* Win detection, stated on the resolved board that a preview shows        *)
(***************************************************************************)
Colours == {"Black", "White"}

\* the winning pieces recorded for a colour
Recorded(state, colour) ==
    IF colour = "Black"
    THEN state.winning_pieces.black
    ELSE state.winning_pieces.white

\* the cells are inside the board and hold the colour
IsRun(board, colour, cells) ==
    \A i \in DOMAIN cells :
        /\ InRange(cells[i])
        /\ board[cells[i][1]][cells[i][2]] = colour

\* the two ways along a row, a column and each diagonal
Ways ==
    { <<0, 1>>, <<0, -1>>, <<1, 0>>, <<-1, 0>>,
      <<1, 1>>, <<-1, -1>>, <<1, -1>>, <<-1, 1>> }

\* the board has WIN_LENGTH contiguous cells of the colour, read from any
\* of their two ends
HasLine(board, colour) ==
    \E cell \in NonEmptyCells(board) : \E d \in Ways :
        IsRun(board, colour, Line(cell, d, WIN_LENGTH))

\* C13: for the resolved board of a shown preview, a win is recorded for a
\* colour (its list of winning pieces is not empty) if and only if the board
\* has at least 5 contiguous cells of that colour inside the board along a
\* row, a column or a diagonal.
C13_WinDetection ==
    game_state.show_observation =>
        \A colour \in Colours :
            (Recorded(game_state, colour) # <<>>)
                <=> HasLine(game_state.observation_board, colour)

\* C13 witness: a win of White is recorded for the diagonal that ends in the
\* last cell of the board.
C13_Witness ==
    /\ game_state.show_observation
    /\ Len(game_state.winning_pieces.white) = WIN_LENGTH
    /\ game_state.winning_pieces.white[WIN_LENGTH] = <<BOARD_SIZE - 1, BOARD_SIZE - 1>>
    /\ game_state.winning_pieces.white[1] =
           <<BOARD_SIZE - WIN_LENGTH, BOARD_SIZE - WIN_LENGTH>>

\* C14: the win outcome of a shown preview is, in this order: the draw of
\* both players when both colours have a line, with both lists of winning
\* pieces non-empty; Black's win when only Black has one; White's win when
\* only White has one; the draw of the full board when neither has one and
\* no cell is Empty; None otherwise.  A full board with a line is never the
\* draw of the full board.
C14_Classification ==
    game_state.show_observation =>
        LET resolved == game_state.observation_board
            black == HasLine(resolved, "Black")
            white == HasLine(resolved, "White")
            full == \A cell \in Cells : resolved[cell[1]][cell[2]] # "Empty"
        IN  /\ game_state.observation_winner =
                  ( IF black /\ white THEN "Draw! Both Players Win!"
                    ELSE IF black THEN "Black Wins!"
                    ELSE IF white THEN "White Wins!"
                    ELSE IF full THEN "Draw! Board Full!"
                    ELSE None )
            /\ (black /\ white) =>
                  /\ game_state.winning_pieces.black # <<>>
                  /\ game_state.winning_pieces.white # <<>>
            /\ (full /\ (black \/ white)) =>
                  game_state.observation_winner # "Draw! Board Full!"
            /\ game_state.game_over = (game_state.observation_winner # None)

\* C14 witness: the full board resolved without a line of either colour.
C14_Witness ==
    /\ game_state.show_observation
    /\ game_state.observation_winner = "Draw! Board Full!"
    /\ game_state.winning_pieces = EmptyWinningPieces

\* the order of the directions of a scan, as the claim lists them
ClaimedDirections == << <<0, 1>>, <<1, 0>>, <<1, 1>>, <<1, -1>> >>

\* the scans <<origin, direction>> that find WIN_LENGTH cells of the colour
\* from the origin forward
QualifyingScans(board, colour) ==
    { s \in NonEmptyCells(board) \X (DOMAIN ClaimedDirections) :
        IsRun(board, colour, Line(s[1], ClaimedDirections[s[2]], WIN_LENGTH)) }

\* s is visited no later than t: origins row by row, then the directions
VisitedFirst(s, t) ==
    \/ s[1][1] < t[1][1]
    \/ s[1][1] = t[1][1] /\ s[1][2] < t[1][2]
    \/ s[1] = t[1] /\ s[2] <= t[2]

\* the board of the literal case: Black at (7,3) .. (7,7), all else Empty
LiteralBoard ==
    [ r \in Index |->
        [ c \in Index |-> IF r = 7 /\ c \in 3 .. 7 THEN "Black" ELSE "Empty" ] ]

\* C15: the winning pieces recorded for a colour in a shown preview are the
\* WIN_LENGTH cells, listed from the origin forward, of the qualifying scan
\* visited first with the origins taken row by row and at each origin the
\* directions in the order (0,1), (1,0), (1,1), (1,-1); no list is recorded
\* for a colour without one.  Black at (7,3) .. (7,7) alone gives Black's win
\* with exactly those cells from left to right.
C15_FirstFoundWins ==
    game_state.show_observation =>
        /\ \A colour \in Colours :
              LET scans == QualifyingScans(game_state.observation_board, colour)
              IN  IF scans = {}
                  THEN Recorded(game_state, colour) = <<>>
                  ELSE \E s \in scans :
                          /\ \A t \in scans : VisitedFirst(s, t)
                          /\ Recorded(game_state, colour) =
                                Line(s[1], ClaimedDirections[s[2]], WIN_LENGTH)
        /\ game_state.observation_board = LiteralBoard =>
              /\ game_state.observation_winner = "Black Wins!"
              /\ game_state.winning_pieces.black =
                    << <<7, 3>>, <<7, 4>>, <<7, 5>>, <<7, 6>>, <<7, 7>> >>
              /\ game_state.winning_pieces.white = <<>>

\* C15 witness: Black has the line of row 2 and the line of the centre row,
\* and the recorded one is that of row 2, visited first.
C15_Witness ==
    /\ game_state.show_observation
    /\ Cardinality(QualifyingScans(game_state.observation_board, "Black")) >= 2
    /\ IsRun(game_state.observation_board, "Black", CentreLine)
    /\ game_state.winning_pieces.black = UpperLine

(***************************************************************************)
(* Resolution                                                              *)
(***************************************************************************)
\* the values gen_range(0..100) draws
RngValues == 0 .. (RNG_RANGE - 1)

\* the threshold of a marker, as the claim lists it
ClaimedThreshold(piece) ==
    CASE piece = "Black90" -> 90
      [] piece = "Black70" -> 70
      [] piece = "Black30" -> 30
      [] piece = "Black10" -> 10

\* the cells of the row of ClickCells, the Empty ones of its ends included
ClickRowCells == {ClickRow} \X Index

\* every cell of that row drawing the value r
SameDraw(r) == [cell \in ClickRowCells |-> r]

\* the markers
Markers == ProbPiece \ {"Empty"}

\* the draws at the thresholds: the last value below and the first not below
EdgeDraws ==
    UNION { { ClaimedThreshold(p) - 1, ClaimedThreshold(p) } : p \in Markers }

\* C16: in a resolution a cell with a marker resolves to Black exactly when
\* the value drawn for it is below the threshold of the marker (90, 70, 30,
\* 10) and to White otherwise, so that exactly threshold of the 100 values
\* give Black and both colours are possible; an Empty cell resolves to Empty
\* whatever is drawn; and the resolved board of a resolving preview is that
\* resolution.
C16_ResolutionByThreshold ==
    LET resolved == [ r \in RngValues |-> Resolve(game_state.board, SameDraw(r)) ]
    IN  /\ \A r \in RngValues : \A cell \in ClickRowCells :
              LET piece == game_state.board[cell[1]][cell[2]]
              IN  resolved[r][cell[1]][cell[2]] =
                    ( IF piece = "Empty" THEN "Empty"
                      ELSE IF r < ClaimedThreshold(piece) THEN "Black"
                      ELSE "White" )
        /\ \A cell \in NonEmptyCells(game_state.board) :
              LET black == { r \in RngValues : resolved[r][cell[1]][cell[2]] = "Black" }
              IN  /\ Cardinality(black) =
                        ClaimedThreshold(game_state.board[cell[1]][cell[2]])
                  /\ black # {}
                  /\ black # RngValues
        /\ PreviewResolves(game_state) =>
              \A r \in EdgeDraws :
                  Preview(game_state, SameDraw(r)).observation_board = resolved[r]

\* C16 witness: a preview can resolve a board that holds each of the four
\* markers and Empty cells.
C16_Witness ==
    /\ PreviewResolves(game_state)
    /\ \A piece \in ProbPiece :
          \E cell \in ClickRowCells : game_state.board[cell[1]][cell[2]] = piece

\* the board without a marker
EmptyBoard == [r \in Index |-> [c \in Index |-> "Empty"]]

\* C17: a resolving preview of the board without a marker, whatever is drawn,
\* records a resolved board with every cell Empty, the win outcome None and
\* both lists of winning pieces empty, and leaves game_over unset; and a
\* shown preview of such a board has these values.
C17_EmptyBoardResolves ==
    game_state.board = EmptyBoard =>
        /\ PreviewResolves(game_state) =>
              \A r \in EdgeDraws :
                  LET after == Preview(game_state, SameDraw(r))
                  IN  /\ after.show_observation
                      /\ after.observation_board = EmptyBoard
                      /\ after.observation_winner = None
                      /\ after.winning_pieces = [black |-> <<>>, white |-> <<>>]
                      /\ after.game_over = FALSE
        /\ game_state.show_observation =>
              /\ game_state.observation_board = EmptyBoard
              /\ game_state.observation_winner = None
              /\ game_state.winning_pieces = [black |-> <<>>, white |-> <<>>]
              /\ game_state.game_over = FALSE

\* C17 witness: the preview of a fresh game, taken before any placement, is
\* shown.
C17_Witness ==
    /\ game_state.board = EmptyBoard
    /\ game_state.show_observation
    /\ game_state.observe_remaining = 0
    /\ completed_turns = NoTurns

(***************************************************************************)
(* Rejected requests.  The handler returns nothing: all a request yields   *)
(* is the game state the frame leaves and whether the process has exited.  *)
(***************************************************************************)
\* the requests of the playing phase: <<operation, cell>>
ActionRequests ==
    ({"place"} \X RequestCells) \cup { <<"end_turn", NoCell>>, <<"preview", NoCell>> }

PointOf(request) ==
    CASE request[1] = "place"    -> CellPoint(request[2][1], request[2][2])
      [] request[1] = "end_turn" -> EndTurnPoint
      [] request[1] = "preview"  -> ObservePoint

\* what the request yields
Outcome(state, request) ==
    << Frame(state, PointOf(request), NoDraws),
       ExitPressed(PlayingBlock(state, PointOf(request), NoDraws), PointOf(request)) >>

\* the kind of rejection that the claim gives a request, "Accepted" for the
\* requests that take effect
RejectionKind(state, request) ==
    IF state.game_over THEN "GameOver"
    ELSE CASE request[1] = "place" ->
                IF ~InRange(request[2]) THEN "OutOfBounds"
                ELSE IF state.board[request[2][1]][request[2][2]] # "Empty"
                     THEN "CellOccupied"
                ELSE IF state.current_turn_move_count # 0 \/ state.show_observation
                     THEN "WrongPhase"
                ELSE "Accepted"
           [] request[1] = "end_turn" ->
                IF state.current_turn_move_count = 0 THEN "WrongPhase" ELSE "Accepted"
           [] request[1] = "preview" ->
                IF ~state.show_observation /\ state.observe_remaining = 0
                THEN "PreviewExhausted"
                ELSE "Accepted"

Rejected(state) ==
    { request \in ActionRequests : RejectionKind(state, request) # "Accepted" }

\* C18 as stated: a rejected request is reported with its kind, so what two
\* requests rejected with different kinds yield differs.
C18_RejectionKindsReported ==
    \A q1 \in Rejected(game_state) : \A q2 \in Rejected(game_state) :
        RejectionKind(game_state, q1) # RejectionKind(game_state, q2) =>
            Outcome(game_state, q1) # Outcome(game_state, q2)

\* C18 amended: every illegal or out-of-range request (occupied cell, cell
\* out of range, end-turn or placement in the wrong phase, preview with the
\* allowance at 0, any of them after the end of the game) is ignored without
\* a report: it yields the unchanged state and the running process, which is
\* what a press on nothing yields, so that the kinds are not distinguished.
C18_RejectionsAreSilent ==
    \A request \in Rejected(game_state) :
        /\ Outcome(game_state, request) = <<game_state, FALSE>>
        /\ Outcome(game_state, request) =
               << Frame(game_state, NowherePoint, NoDraws),
                  ExitPressed(PlayingBlock(game_state, NowherePoint, NoDraws),
                              NowherePoint) >>

\* C18 witness: after the placement and the preview of a turn, with the
\* preview hidden again, requests of four kinds are rejected: a placement on
\* an occupied cell, one out of range, one on an Empty cell and a preview.
C18_Witness ==
    /\ ~game_state.game_over
    /\ { RejectionKind(game_state, request) : request \in Rejected(game_state) }
          = {"CellOccupied", "OutOfBounds", "WrongPhase", "PreviewExhausted"}
    /\ \A request \in Rejected(game_state) :
          Outcome(game_state, request) = <<game_state, FALSE>>

(***************************************************************************)
(* One marker per turn                                                     *)
(***************************************************************************)
\* the cells that hold one of the markers
CellsWith(board, markers) ==
    { cell \in NonEmptyCells(board) : board[cell[1]][cell[2]] \in markers }

\* C19: in every reachable state the placement count of the turn is 0 or 1,
\* the number of non-Empty cells of the board is the number of completed
\* turns plus the placement count, and there are as many markers of the
\* Black player (Black90, Black70) as of the White player (Black10, Black30)
\* or one more.
C19_OneMarkerPerTurn ==
    /\ game_state.current_turn_move_count \in {0, 1}
    /\ Cardinality(NonEmptyCells(game_state.board))
          = TurnsTaken + game_state.current_turn_move_count
    /\ Cardinality(CellsWith(game_state.board, {"Black90", "Black70"}))
          - Cardinality(CellsWith(game_state.board, {"Black10", "Black30"}))
          \in {0, 1}

\* C19 witness: Black has placed in its second turn: three markers after two
\* completed turns, two of them Black's.
C19_Witness ==
    /\ TurnsTaken = 2
    /\ game_state.current_turn_move_count = 1
    /\ Cardinality(CellsWith(game_state.board, {"Black90", "Black70"})) = 2
    /\ Cardinality(CellsWith(game_state.board, {"Black10", "Black30"})) = 1

(***************************************************************************)
(* Independence of the resolutions                                         *)
(***************************************************************************)
\* the state holds a resolution of the board as it is now
HoldsResolution(state) ==
    /\ NonEmptyCells(state.board) # {}
    /\ NonEmptyCells(state.observation_board) = NonEmptyCells(state.board)

\* the draws that give each marker the colour that `colouring` names
DrawsFor(colouring) ==
    [ cell \in DOMAIN colouring |->
        IF colouring[cell] = "Black" THEN BlackDraw ELSE WhiteDraw ]

\* the state without the resolution it holds
Forgotten(state) ==
    [state EXCEPT !.observation_board = EmptyBoard]

\* C20: when a preview can resolve a board of which the state still holds
\* an earlier resolution, every colouring of the markers is a possible
\* result, whatever the earlier one was, and the resolved board and the win
\* outcome of the new resolution are those it would have without the
\* earlier one.
C20_ResolutionsIndependent ==
    (PreviewResolves(game_state) /\ HoldsResolution(game_state)) =>
        \A colouring \in [NonEmptyCells(game_state.board) -> Colours] :
            LET after == Preview(game_state, DrawsFor(colouring))
                fresh == Preview(Forgotten(game_state), DrawsFor(colouring))
            IN  /\ \A cell \in DOMAIN colouring :
                      after.observation_board[cell[1]][cell[2]] = colouring[cell]
                /\ after.observation_board = fresh.observation_board
                /\ after.observation_winner = fresh.observation_winner
                /\ after.winning_pieces = fresh.winning_pieces

\* C20 witness: Black has resolved the five markers of the row without a
\* win and ended its turn; White, before placing, can resolve the unchanged
\* board to other colours and to a win.
C20_Witness ==
    /\ PreviewResolves(game_state)
    /\ HoldsResolution(game_state)
    /\ game_state.current_player = "White"
    /\ game_state.current_turn_move_count = 0
    /\ Cardinality(NonEmptyCells(game_state.board)) = WIN_LENGTH
    /\ \E draws \in Draws(game_state, ObservePoint) :
          /\ Preview(game_state, draws).observation_board
                # game_state.observation_board
          /\ Preview(game_state, draws).observation_winner = "Black Wins!"

(***************************************************************************)
(* The end of the game and what is recorded of it                          *)
(***************************************************************************)
\* C21: in every reachable state game_over is set if and only if a win
\* outcome is recorded; while the game is not over the outcome is None and
\* both lists of winning pieces are empty; and when the game is over the
\* allowance is 0.
C21_GameOverIffOutcome ==
    /\ game_state.game_over <=> (game_state.observation_winner # None)
    /\ ~game_state.game_over =>
          /\ game_state.observation_winner = None
          /\ game_state.winning_pieces.black = <<>>
          /\ game_state.winning_pieces.white = <<>>
    /\ game_state.game_over => game_state.observe_remaining = 0

\* C21 witness: White, at the start of its turn, has resolved the row of
\* five markers to its win.
C21_Witness ==
    /\ game_state.game_over
    /\ game_state.observation_winner = "White Wins!"
    /\ game_state.current_player = "White"
    /\ game_state.current_turn_move_count = 0
    /\ game_state.observe_remaining = 0

\* C22: whenever the preview is shown, each cell of the resolved board is
\* Empty if and only if the cell of the board is Empty.
C22_ShownBoardConsistent ==
    game_state.show_observation =>
        \A cell \in Cells :
            (game_state.observation_board[cell[1]][cell[2]] = "Empty")
                <=> (game_state.board[cell[1]][cell[2]] = "Empty")

\* C22 witness: the preview is shown in a turn with a placement, on a board
\* of three markers that it has resolved without a win.
C22_Witness ==
    /\ game_state.show_observation
    /\ ~game_state.game_over
    /\ game_state.current_turn_move_count = 1
    /\ Cardinality(NonEmptyCells(game_state.board)) = 3
    /\ Cardinality(NonEmptyCells(game_state.observation_board)) = 3

\* the outcomes with which a list of winning pieces is recorded for a colour
OutcomesOf(colour) ==
    IF colour = "Black"
    THEN {"Black Wins!", "Draw! Both Players Win!"}
    ELSE {"White Wins!", "Draw! Both Players Win!"}

\* the list is 5 distinct cells inside the board, each the one before moved
\* by the same one of the four directions, all of the colour on the board
IsWinningLine(board, colour, cells) ==
    /\ Len(cells) = 5
    /\ Cardinality(Range(cells)) = 5
    /\ \A i \in 1 .. 5 : InRange(cells[i])
    /\ \E d \in { <<0, 1>>, <<1, 0>>, <<1, 1>>, <<1, -1>> } :
          \A i \in 1 .. 4 :
              /\ cells[i + 1][1] = cells[i][1] + d[1]
              /\ cells[i + 1][2] = cells[i][2] + d[2]
    /\ \A i \in 1 .. 5 : board[cells[i][1]][cells[i][2]] = colour

\* C23: in every state the list of winning pieces of each colour is empty
\* or is exactly 5 distinct cells inside the board, consecutive along one of
\* the four scan directions and all of that colour on the retained resolved
\* board, also when the run on the board is longer; and the list is
\* non-empty exactly when the recorded outcome is the win of that colour or
\* the draw of both.
C23_WinningPiecesShape ==
    \A colour \in Colours :
        /\ \/ Recorded(game_state, colour) = <<>>
           \/ IsWinningLine(game_state.observation_board, colour,
                            Recorded(game_state, colour))
        /\ (Recorded(game_state, colour) # <<>>)
              <=> (game_state.observation_winner \in OutcomesOf(colour))

\* C23 witness: the resolved board has a column of more than 5 cells of
\* Black, of which the first 5 are recorded.
C23_Witness ==
    /\ game_state.observation_winner = "Black Wins!"
    /\ game_state.winning_pieces.black = Line(<<0, 0>>, <<1, 0>>, 5)
    /\ game_state.observation_board[5][0] = "Black"

(***************************************************************************)
(* The last turns of a game.  The specification SpecEndgame starts from    *)
(* the game in which every cell of the board but the last EmptyLeft has    *)
(* been played, and goes on with the presses of the playing block: the     *)
(* observe button, the end-turn button and the cells still Empty.  There   *)
(* is no restart in it.  FairEndgame adds that a press that changes the    *)
(* state keeps being made while there is one.                              *)
(***************************************************************************)
\* the cells still Empty at the start
EmptyLeft == 3

EndgameStart == SubSeq(AllCells, 1, Len(AllCells) - EmptyLeft)

EndgameCells ==
    { AllCells[i] : i \in (Len(AllCells) - EmptyLeft + 1) .. Len(AllCells) }

\* the draws of a press on the observe button: those of FullBoardDraws when
\* the press resolves the board
EndgameDraws(state) ==
    IF PreviewResolves(state) THEN FullBoardDraws ELSE { NoDraws }

InitEndgame ==
    /\ game_state = Play(EndgameStart)
    /\ completed_turns = TurnsOfPlay(EndgameStart)
    /\ exited = FALSE

EndgameObserve ==
    \E draws \in EndgameDraws(game_state) : PressDrawn(ObservePoint, draws)

EndgameEndTurn == PressDrawn(EndTurnPoint, NoDraws)

EndgamePlace ==
    \E cell \in EndgameCells : PressDrawn(CellPoint(cell[1], cell[2]), NoDraws)

NextEndgame ==
    \/ EndgameObserve
    \/ EndgameEndTurn
    \/ EndgamePlace

SpecEndgame == InitEndgame /\ [][NextEndgame]_vars

\* ENABLED <<NextEndgame>>_vars: a press of NextEndgame changes the state
\* (completed_turns changes with the end-turn only, which changes the
\* current player; exited does not change).
EndgameEnabled ==
    /\ ~exited
    /\ \/ Frame(game_state, EndTurnPoint, NoDraws) # game_state
       \/ \E cell \in EndgameCells :
             Frame(game_state, CellPoint(cell[1], cell[2]), NoDraws) # game_state
       \/ \E draws \in EndgameDraws(game_state) :
             Frame(game_state, ObservePoint, draws) # game_state

\* The players keep pressing where a press is accepted: WF_vars(NextEndgame)
\* written out, []<>~ENABLED <<A>>_vars \/ []<><<A>>_vars, a step of
\* [NextEndgame]_vars that changes vars being a NextEndgame step.
FairEndgame ==
    SpecEndgame /\ ([]<>(~EndgameEnabled) \/ []<><<TRUE>>_vars)

(***************************************************************************)
(* Progress                                                                *)
(***************************************************************************)
BoardFull(state) == NonEmptyCells(state.board) = Cells

\* C24: in every reachable state in which the game is not over, an end-turn
\* request, a preview request (resolving or hiding) or a placement request
\* for some cell changes the state; a resolving preview of the full board
\* sets game_over whatever is drawn; and no state has the board full, the
\* placement count 0, the allowance 0 and the preview hidden with the game
\* not over.
C24_NeverStuck ==
    /\ ~game_state.game_over =>
          \/ EndTurn(game_state) # game_state
          \/ \E draws \in EndgameDraws(game_state) :
                 Preview(game_state, draws) # game_state
          \/ \E cell \in Cells : Place(game_state, cell) # game_state
    /\ (PreviewResolves(game_state) /\ BoardFull(game_state)) =>
          \A draws \in FullBoardDraws : Preview(game_state, draws).game_over
    /\ ~ ( /\ BoardFull(game_state)
           /\ game_state.current_turn_move_count = 0
           /\ game_state.observe_remaining = 0
           /\ ~game_state.show_observation
           /\ ~game_state.game_over )

\* C24 witness: the board is full at the start of a turn and the game is
\* not over: the resolving preview is the one request left.
C24_Witness ==
    /\ BoardFull(game_state)
    /\ ~game_state.game_over
    /\ game_state.current_turn_move_count = 0
    /\ ~game_state.show_observation
    /\ game_state.observe_remaining = 1
    /\ EndTurn(game_state) = game_state
    /\ \A cell \in Cells : Place(game_state, cell) = game_state

\* the end-turns the game can still take: one per Empty cell, and that of
\* the turn in which a marker is placed already
TurnsLeft(state) ==
    Cardinality(Cells) - Cardinality(NonEmptyCells(state.board))
        + state.current_turn_move_count

\* the requests the turn can still accept before its end-turn: the
\* placement, the resolving preview and the hide
LeftInTurn(state) ==
    (1 - state.current_turn_move_count)
        + 2 * state.observe_remaining
        + (IF state.show_observation THEN 1 ELSE 0)

\* a measure of what is left of the game: an end-turn takes one from
\* TurnsLeft and gives LeftInTurn at most 3
Rank(state) == 4 * TurnsLeft(state) + LeftInTurn(state)

\* C25: every step that changes the state of a game that is not over (the
\* restart changes that of a game that is over) lowers a measure that is
\* never negative (the end-turns left, one per Empty cell, and within the
\* turn at most one placement, one resolving preview and one hide), so that
\* there is no infinite sequence of accepted actions; and when an action
\* that changes the state keeps being taken while there is one, game_over is
\* eventually reached.
C25_GameTerminates ==
    /\ [][ /\ Rank(game_state) >= 0
           /\ ~game_state.game_over /\ game_state' # game_state
                => Rank(game_state') < Rank(game_state)
         ]_vars
    /\ <>(game_state.game_over)

\* C25 witness: a game has gone on to the full board and ended there in the
\* draw of the full board.
C25_Witness ==
    /\ game_state.game_over
    /\ BoardFull(game_state)
    /\ game_state.observation_winner = "Draw! Board Full!"
    /\ Rank(game_state) < 4

====
